---- MODULE Spec2Model ----
(***************************************************************************)
(* A model of the greenleafy plant-telemetry demo:                         *)
(*   - the generator       (publishLoop, the drifting simulator state and  *)
(*                          its four paced publishes per tick),            *)
(*   - the relay           (startSubscriber and its subscription handler), *)
(*   - the broadcaster     (initSocket / emitToAll),                       *)
(*   - extractPayload      (the relay's copy and the script's copy),       *)
(*   - the socket service  (the plant_* handlers of a connected client),   *)
(*   - the dashboard       (the metrics state of App and its stat cards).  *)
(*                                                                         *)
(* Units.  Water level and soil moisture are integer percent, light is     *)
(* integer lux.  temperatureC is a JavaScript double in the source; it is  *)
(* kept here in hundredths of a degree (2200 = 22.00 C), and the value     *)
(* handed to publish, Number(t.toFixed(1)), in tenths (220 = 22.0 C).      *)
(***************************************************************************)
EXTENDS Integers, Sequences, FiniteSets, TLC

VARIABLES
    \* ---- generator (src/unnamed/part_000)
    envReceiver,   \* process.env.RECEIVER_IDENTIFICATION_NUMBER
    receiversId,   \* the receiver list built from it
    state,         \* the simulator state, [waterLevel, soilMoisture, temperatureC, lightLux]
    now,           \* the Date.now() value read at the head of the current tick
    tick,          \* the current tick's drift: [prev |-> state before, delta |-> deltas drawn]
    ticks,         \* number of drift steps explored so far (capped at MaxTicks)
    pc,            \* position of publishLoop
    metric,        \* index in Kinds of the try block publishLoop is at
    sent,          \* the calls of client.publish made in the current tick, in order
    \* ---- extractPayload applied to a message (src/api/ensync.emit.service.js,
    \*      src/api/publisher-test.js)
    xEvt,          \* the message
    xPc,           \* "input", "once" (extracted), "twice" (the result extracted again)
    xOnce,         \* extractPayload(xEvt), the relay's copy
    xTest,         \* extractPayload(xEvt), the script's copy
    xTwice,        \* extractPayload(xOnce)
    \* ---- relay (src/api/ensync.emit.service.js) and broadcaster
    \*      (src/api/socket.service.js)
    rEnv,          \* the relay's environment: credentials and EVENT_TO_PUBLISH
    rPc,           \* position of startSubscriber
    topics,        \* the topics selected
    topicIdx,      \* index in topics of the for loop
    timers,        \* the topics of the setInterval timers set so far
    subResults,    \* per topic tried so far: [topic, ok], ok when its handler is registered
    ioRef,         \* the broadcaster's io reference: NullRef until initSocket
    lastRun,       \* the last callback run (handler or timer) and its emitToAll calls
    sPc,           \* position of initSocket
    raised,        \* the subscription (index in subResults) whose handler last caught an exception; 0: none
    wire,          \* the io.emit calls the transport has received since the last callback began
    \* ---- socket service, client events (src/api/socket.service.js)
    svcEnvReceiver,  \* process.env.RECEIVER_IDENTIFICATION_NUMBER of the API process
    svcReceiversId,  \* the receiver list the socket service builds from it
    connected,       \* a client socket is connected and has its handlers
    clientRun,       \* the last run of a plant_* handler: the event, and its publish call if any
    \* ---- dashboard (src/src/BicycleSimulator.jsx)
    metrics,       \* the metrics state of App: null, or an object
    rendered       \* the render of the four stat cards that followed the last update

genVars == <<envReceiver, receiversId, state, now, tick, ticks, pc, metric, sent>>

extractVars == <<xEvt, xPc, xOnce, xTest, xTwice>>

relayVars == <<rEnv, rPc, topics, topicIdx, timers, subResults, ioRef, lastRun, sPc, raised, wire>>

socketVars == <<svcEnvReceiver, svcReceiversId, connected, clientRun>>

dashVars == <<metrics, rendered>>

vars == <<genVars, extractVars, relayVars, socketVars, dashVars>>

-----------------------------------------------------------------------------
(* JavaScript values.  A value is undefined, null, a boolean, a number, a   *)
(* string or an object; an object is a finite map from field names to       *)
(* values.                                                                  *)

Undefined == [type |-> "undefined"]
Null      == [type |-> "null"]
Bool(b)   == [type |-> "boolean", bool |-> b]
Num(n)    == [type |-> "number", num |-> n]
Str(t)    == [type |-> "string", str |-> t]
Obj(f)    == [type |-> "object", fields |-> f]

\* typeof v; typeof null is "object".
TypeOf(v) == IF v.type = "null" THEN "object" ELSE v.type

\* The truthiness of v: undefined, null, false, 0 and "" are falsy.
ToBoolean(v) ==
    CASE v.type = "undefined" -> FALSE
      [] v.type = "null"      -> FALSE
      [] v.type = "boolean"   -> v.bool
      [] v.type = "number"    -> v.num # 0
      [] v.type = "string"    -> v.str # ""
      [] v.type = "object"    -> TRUE

\* o.k for an object o: the field's value, undefined when o has no field k.
Get(o, k) == IF k \in DOMAIN o.fields THEN o.fields[k] ELSE Undefined

\* a ?? b
Coalesce(a, b) == IF a = Null \/ a = Undefined THEN b ELSE a

\* a || b
Or(a, b) == IF ToBoolean(a) THEN a ELSE b

-----------------------------------------------------------------------------
(* extractPayload                                                           *)

\* An extraction that takes falsy fields for missing ones (|| for ??).
extractPayloadFalsy(evt) ==
    IF ToBoolean(evt) /\ TypeOf(evt) = "object"
      THEN Or(Get(evt, "payload"), Or(Get(evt, "data"), evt))
      ELSE evt

\* An extraction without the fall-back to the message itself.
extractPayloadNoFallback(evt) ==
    IF ToBoolean(evt) /\ TypeOf(evt) = "object"
      THEN Coalesce(Get(evt, "payload"), Get(evt, "data"))
      ELSE evt

\* The relay's extractPayload (ensync.emit.service.js).
extractPayload(evt) ==
    IF ToBoolean(evt) /\ TypeOf(evt) = "object"
      THEN Coalesce(Get(evt, "payload"), Coalesce(Get(evt, "data"), evt))
      ELSE evt

\* The script's extractPayload (publisher-test.js).
extractPayloadTest(evt) ==
    IF ToBoolean(evt) /\ TypeOf(evt) = "object"
      THEN Coalesce(Get(evt, "payload"), Coalesce(Get(evt, "data"), evt))
      ELSE evt

\* A flat telemetry payload, {moisture: 44}.
FlatPayload == Obj([moisture |-> Num(44)])

\* The values a field of a message holds at the innermost level.
LeafValues == {Null, Num(0), FlatPayload}

\* The objects with some of the fields payload and data, valued in V.
EnvelopesOver(V) ==
    { Obj(f) : f \in UNION { [D -> V] : D \in SUBSET {"payload", "data"} } }

\* Bound: how deep envelopes nest in the messages explored.
MaxDepth == 2

RECURSIVE ValuesToDepth(_)
ValuesToDepth(d) ==
    IF d = 0 THEN LeafValues
             ELSE LeafValues \cup EnvelopesOver(ValuesToDepth(d - 1))

\* The messages explored: the nested values, and the primitives.
Messages ==
    ValuesToDepth(MaxDepth)
        \cup {Undefined, Bool(FALSE), Bool(TRUE), Num(44), Str(""), Str("raw")}

ExtractInit ==
    /\ xEvt \in Messages
    /\ xPc = "input"
    /\ xOnce = Undefined
    /\ xTest = Undefined
    /\ xTwice = Undefined

\* Both copies are applied to the message.
ExtractOnce ==
    /\ xPc = "input"
    /\ xOnce' = extractPayload(xEvt)
    /\ xTest' = extractPayloadTest(xEvt)
    /\ xPc' = "once"
    /\ UNCHANGED <<xEvt, xTwice>>

\* The relay's copy is applied to its own result.
ExtractTwice ==
    /\ xPc = "once"
    /\ xTwice' = extractPayload(xOnce)
    /\ xPc' = "twice"
    /\ UNCHANGED <<xEvt, xOnce, xTest>>

-----------------------------------------------------------------------------
(* Generator: constants and pure helpers                                    *)

workspaceName == "progo"

plantWaterEventName == "progo/plant/water"
plantSoilEventName  == "progo/plant/soil"
plantTempEventName  == "progo/plant/temperature"
plantLightEventName == "progo/plant/light"

\* The four try blocks of publishLoop, in source order.
Kinds == <<"water", "soil", "temperature", "light">>

EventName(k) ==
    CASE k = "water"       -> plantWaterEventName
      [] k = "soil"        -> plantSoilEventName
      [] k = "temperature" -> plantTempEventName
      [] k = "light"       -> plantLightEventName

Min(a, b) == IF a <= b THEN a ELSE b
Max(a, b) == IF a >= b THEN a ELSE b

\* A clamp that forgets the upper bound.
clampNoUpper(v, min, max) == Max(min, v)

\* clamp(v, min, max) = Math.max(min, Math.min(max, v))
clamp(v, min, max) == Max(min, Min(max, v))

\* Clamp bounds of the drift step (temperature in hundredths of a degree).
WaterLo == 5
WaterHi == 95
SoilLo  == 10
SoilHi  == 90
TempLo  == 1200
TempHi  == 3500
LightLo == 500
LightHi == 20000

\* The values randInt(min, max) can return: every integer of min..max.
randInt(min, max) == min..max

\* The ranges of the four per-tick deltas.  (Math.random() - 0.5) * 0.8 lies
\* in [-0.4, 0.4): in hundredths, -40..39.
WaterDeltas == randInt(-2, 2)
SoilDeltas  == randInt(-2, 3)
TempDeltas  == -40..39
LightDeltas == randInt(-900, 900)

\* The ranges of the initial state.  22 + Math.random() * 6 lies in [22, 28).
WaterInit == randInt(35, 75)
SoilInit  == randInt(30, 65)
TempInit  == 2200..2799
LightInit == randInt(3500, 14000)

\* Number(t.toFixed(1)): t rounded to one decimal; from hundredths to tenths.
toFixed1(t) == (t + 5) \div 10

\* Math.round on a value that is already an integer.
MathRound(v) == v

\* The random draws the model explores.  A tick draws its four deltas
\* together: all four at the top of their ranges, or all four at the bottom.
DriftSamples ==
    { d \in { [waterLevel |->  2, soilMoisture |->  3, temperatureC |->  39, lightLux |->  900],
              [waterLevel |-> -2, soilMoisture |-> -2, temperatureC |-> -40, lightLux |-> -900] } :
        /\ d.waterLevel \in WaterDeltas
        /\ d.soilMoisture \in SoilDeltas
        /\ d.temperatureC \in TempDeltas
        /\ d.lightLux \in LightDeltas }

\* The draw that leaves every value where it is.
ZeroDrift == [waterLevel |-> 0, soilMoisture |-> 0, temperatureC |-> 0, lightLux |-> 0]

\* Bound: the number of ticks whose drift is drawn from DriftSamples; every
\* later tick draws ZeroDrift, so the loop itself is never stopped.
MaxTicks == 19

\* The initial states the model explores: the two corners of the initial
\* ranges, and a state in the middle of them.
InitSamples ==
    { s \in { [waterLevel |-> 35, soilMoisture |-> 30, temperatureC |-> 2200, lightLux |-> 3500],
              [waterLevel |-> 50, soilMoisture |-> 47, temperatureC |-> 2500, lightLux |-> 8000],
              [waterLevel |-> 75, soilMoisture |-> 65, temperatureC |-> 2799, lightLux |-> 14000] } :
        /\ s.waterLevel \in WaterInit
        /\ s.soilMoisture \in SoilInit
        /\ s.temperatureC \in TempInit
        /\ s.lightLux \in LightInit }

\* The Date.now() values a tick can read, in ms from an arbitrary origin.
TimeSamples == {1000, 6000}

\* An environment variable is unset (undefined) or a string, possibly empty.
Unset == "<undefined>"
EnvSamples == {Unset, "", "receiver-1"}

\* Boolean(v) for an environment value: undefined and "" are falsy.
Truthy(v) == v # Unset /\ v # ""

\* A receiver list that keeps whatever the environment holds.
ReceiversUnfiltered(env) == <<env>>

\* receiversId = [process.env.RECEIVER_IDENTIFICATION_NUMBER].filter(Boolean)
ReceiversOf(env) == SelectSeq(<<env>>, Truthy)

NoTick == [prev |-> [waterLevel |-> 0, soilMoisture |-> 0, temperatureC |-> 0, lightLux |-> 0],
           delta |-> [waterLevel |-> 0, soilMoisture |-> 0, temperatureC |-> 0, lightLux |-> 0]]

-----------------------------------------------------------------------------
(* Generator: publishLoop                                                   *)

\* A drift step that applies every delta twice.
DriftedDoubleStep(s, d) ==
    [waterLevel   |-> clamp(s.waterLevel + 2 * d.waterLevel, WaterLo, WaterHi),
     soilMoisture |-> clamp(s.soilMoisture + 2 * d.soilMoisture, SoilLo, SoilHi),
     temperatureC |-> clamp(s.temperatureC + 2 * d.temperatureC, TempLo, TempHi),
     lightLux     |-> clamp(s.lightLux + 2 * d.lightLux, LightLo, LightHi)]

\* The state after the drift step, from the state before and the deltas drawn.
Drifted(s, d) ==
    [waterLevel   |-> clamp(s.waterLevel + d.waterLevel, WaterLo, WaterHi),
     soilMoisture |-> clamp(s.soilMoisture + d.soilMoisture, SoilLo, SoilHi),
     temperatureC |-> clamp(s.temperatureC + d.temperatureC, TempLo, TempHi),
     lightLux     |-> clamp(s.lightLux + d.lightLux, LightLo, LightHi)]

\* A payload built from the values the state had before the tick's drift.
PublishDataBeforeDrift(k) ==
    CASE k = "water"       -> [field |-> "level",    value |-> MathRound(tick.prev.waterLevel),   timestamp |-> now]
      [] k = "soil"        -> [field |-> "moisture", value |-> MathRound(tick.prev.soilMoisture), timestamp |-> now]
      [] k = "temperature" -> [field |-> "celsius",  value |-> toFixed1(tick.prev.temperatureC),  timestamp |-> now]
      [] k = "light"       -> [field |-> "lux",      value |-> MathRound(tick.prev.lightLux),     timestamp |-> now]

\* The payload each try block builds: one value field and the tick's timestamp.
PublishData(k) ==
    CASE k = "water"       -> [field |-> "level",    value |-> MathRound(state.waterLevel),   timestamp |-> now]
      [] k = "soil"        -> [field |-> "moisture", value |-> MathRound(state.soilMoisture), timestamp |-> now]
      [] k = "temperature" -> [field |-> "celsius",  value |-> toFixed1(state.temperatureC),  timestamp |-> now]
      [] k = "light"       -> [field |-> "lux",      value |-> MathRound(state.lightLux),     timestamp |-> now]

\* A start from the ends of the clamp ranges.
GenInitAtClampBounds ==
    /\ envReceiver \in EnvSamples
    /\ receiversId = ReceiversOf(envReceiver)
    /\ state \in { [waterLevel |-> WaterLo, soilMoisture |-> SoilLo,
                    temperatureC |-> TempLo, lightLux |-> LightLo],
                  [waterLevel |-> WaterHi, soilMoisture |-> SoilHi,
                    temperatureC |-> TempHi, lightLux |-> LightHi] }
    /\ now = 0
    /\ tick = NoTick
    /\ ticks = 0
    /\ pc = "create"
    /\ metric = 1
    /\ sent = <<>>

GenInit ==
    /\ envReceiver \in EnvSamples
    /\ receiversId = ReceiversOf(envReceiver)
    /\ state \in InitSamples
    /\ now = 0
    /\ tick = NoTick
    /\ ticks = 0
    /\ pc = "create"
    /\ metric = 1
    /\ sent = <<>>

\* await ensyncClient.createClient(...) resolves: the loop starts.
CreateClientOk ==
    /\ pc = "create"
    /\ pc' = "loop"
    /\ UNCHANGED <<envReceiver, receiversId, state, now, tick, ticks, metric, sent>>
    /\ UNCHANGED <<extractVars, relayVars, socketVars, dashVars>>

\* await ensyncClient.createClient(...) rejects: publishLoop() rejects and the
\* top-level .catch logs "Publisher crashed"; the loop never starts.
CreateClientFail ==
    /\ pc = "create"
    /\ pc' = "crashed"
    /\ UNCHANGED <<envReceiver, receiversId, state, now, tick, ticks, metric, sent>>
    /\ UNCHANGED <<extractVars, relayVars, socketVars, dashVars>>

\* A tick started by a repeating timer, whether or not the previous tick's
\* publishes and sleeps are over.
DriftOnInterval ==
    /\ pc \in {"loop", "sleep"}
    /\ \E t \in TimeSamples, d \in (IF ticks < MaxTicks THEN DriftSamples ELSE {ZeroDrift}) :
          /\ now' = t
          /\ tick' = [prev |-> state, delta |-> d]
          /\ state' = Drifted(state, d)
    /\ pc' = "try"
    /\ metric' = 1
    /\ sent' = <<>>
    /\ ticks' = Min(ticks + 1, MaxTicks)
    /\ UNCHANGED <<envReceiver, receiversId>>
    /\ UNCHANGED <<extractVars, relayVars, socketVars, dashVars>>

\* The head of a tick: read the time, drift the four values.
Drift ==
    /\ pc = "loop"
    /\ \E t \in TimeSamples, d \in (IF ticks < MaxTicks THEN DriftSamples ELSE {ZeroDrift}) :
          /\ now' = t
          /\ tick' = [prev |-> state, delta |-> d]
          /\ state' = Drifted(state, d)
    /\ pc' = "try"
    /\ metric' = 1
    /\ sent' = <<>>
    /\ ticks' = Min(ticks + 1, MaxTicks)
    /\ UNCHANGED <<envReceiver, receiversId>>
    /\ UNCHANGED <<extractVars, relayVars, socketVars, dashVars>>

\* Inside a try block with receivers: client.publish is called and awaited.
PublishCall ==
    /\ pc = "try"
    /\ Len(receiversId) > 0
    /\ sent' = Append(sent, [kind      |-> Kinds[metric],
                             topic     |-> EventName(Kinds[metric]),
                             receivers |-> receiversId,
                             data      |-> PublishData(Kinds[metric]),
                             outcome   |-> "pending"])
    /\ pc' = "await"
    /\ UNCHANGED <<envReceiver, receiversId, state, now, tick, ticks, metric>>
    /\ UNCHANGED <<extractVars, relayVars, socketVars, dashVars>>

\* Inside a try block without receivers: the if is skipped, nothing is called.
PublishSkip ==
    /\ pc = "try"
    /\ ~ (Len(receiversId) > 0)
    /\ pc' = "sleep"
    /\ UNCHANGED <<envReceiver, receiversId, state, now, tick, ticks, metric, sent>>
    /\ UNCHANGED <<extractVars, relayVars, socketVars, dashVars>>

\* The awaited publish resolves.
PublishResolve ==
    /\ pc = "await"
    /\ sent' = [sent EXCEPT ![Len(sent)].outcome = "ok"]
    /\ pc' = "sleep"
    /\ UNCHANGED <<envReceiver, receiversId, state, now, tick, ticks, metric>>
    /\ UNCHANGED <<extractVars, relayVars, socketVars, dashVars>>

\* A rejection that one try around the whole tick would catch: the rest of
\* the tick's publishes are skipped.
PublishRejectSkipsRest ==
    /\ pc = "await"
    /\ sent' = [sent EXCEPT ![Len(sent)].outcome = "failed"]
    /\ pc' = "sleep"
    /\ metric' = Len(Kinds)
    /\ UNCHANGED <<envReceiver, receiversId, state, now, tick, ticks>>
    /\ UNCHANGED <<extractVars, relayVars, socketVars, dashVars>>

\* A rejection that nothing catches: publishLoop() rejects.
PublishRejectCrashes ==
    /\ pc = "await"
    /\ sent' = [sent EXCEPT ![Len(sent)].outcome = "failed"]
    /\ pc' = "crashed"
    /\ UNCHANGED <<envReceiver, receiversId, state, now, tick, ticks, metric>>
    /\ UNCHANGED <<extractVars, relayVars, socketVars, dashVars>>

\* A rejection after which the same publish is tried again.
PublishRejectRetries ==
    /\ pc = "await"
    /\ sent' = [sent EXCEPT ![Len(sent)].outcome = "failed"]
    /\ pc' = "try"
    /\ UNCHANGED <<envReceiver, receiversId, state, now, tick, ticks, metric>>
    /\ UNCHANGED <<extractVars, relayVars, socketVars, dashVars>>

\* The awaited publish rejects: the catch of the try block logs the error
\* and control falls through to the sleep that follows the block.
PublishReject ==
    /\ pc = "await"
    /\ sent' = [sent EXCEPT ![Len(sent)].outcome = "failed"]
    /\ pc' = "sleep"
    /\ UNCHANGED <<envReceiver, receiversId, state, now, tick, ticks, metric>>
    /\ UNCHANGED <<extractVars, relayVars, socketVars, dashVars>>

\* A sleep between two try blocks during which the state drifts once more.
SleepDoneDriftsAgain ==
    /\ pc = "sleep"
    /\ IF metric < Len(Kinds)
         THEN /\ metric' = metric + 1
              /\ pc' = "try"
              /\ \E d \in DriftSamples : state' = Drifted(state, d)
         ELSE /\ metric' = 1
              /\ pc' = "loop"
              /\ state' = state
    /\ UNCHANGED <<envReceiver, receiversId, now, tick, ticks, sent>>
    /\ UNCHANGED <<extractVars, relayVars, socketVars, dashVars>>

\* The sleep after a try block ends: on to the next try block, or, after the
\* fourth, back to the head of the loop.
SleepDone ==
    /\ pc = "sleep"
    /\ IF metric < Len(Kinds)
         THEN /\ metric' = metric + 1
              /\ pc' = "try"
         ELSE /\ metric' = 1
              /\ pc' = "loop"
    /\ UNCHANGED <<envReceiver, receiversId, state, now, tick, ticks, sent>>
    /\ UNCHANGED <<extractVars, relayVars, socketVars, dashVars>>

GenNext ==
    \/ CreateClientOk
    \/ CreateClientFail
    \/ Drift
    \/ PublishCall
    \/ PublishSkip
    \/ PublishResolve
    \/ PublishReject
    \/ SleepDone

-----------------------------------------------------------------------------
(* Broadcaster (socket.service.js) and relay (ensync.emit.service.js)       *)

\* The value of ioRef before initSocket, and the server it holds after.
NullRef == "null"
IoServer == "io"

\* The result of looking up a key the table does not hold (undefined).
NoChannel == "<undefined>"

PassthroughChannel == "ensync_event"

\* socketEventMap
socketEventMap ==
    [t \in {"progo/plant/water", "progo/plant/soil",
            "progo/plant/temperature", "progo/plant/light"} |->
        CASE t = "progo/plant/water"       -> "plant_water"
          [] t = "progo/plant/soil"        -> "plant_soil"
          [] t = "progo/plant/temperature" -> "plant_temp"
          [] t = "progo/plant/light"       -> "plant_light"]

\* Object.keys(socketEventMap), in insertion order.
socketEventMapKeys ==
    <<"progo/plant/water", "progo/plant/soil", "progo/plant/temperature", "progo/plant/light">>

\* socketEventMap[topic]
Mapped(topic) ==
    IF topic \in DOMAIN socketEventMap THEN socketEventMap[topic] ELSE NoChannel

\* An emitToAll without the ioRef test: emit is called on null, which raises.
emitToAllUnguarded(io, event, payload, throws) ==
    [channel |-> event,
     payload |-> payload,
     outcome |-> IF io = NullRef \/ throws THEN "threw" ELSE "emitted"]

\* emitToAll(event, payload) with ioRef = io; throws: whether io.emit raises.
\* The call as observed: what was passed, and whether it was dropped (io not
\* initialized: warn and return), emitted, or threw.
emitToAll(io, event, payload, throws) ==
    [channel |-> event,
     payload |-> payload,
     outcome |-> IF io = NullRef THEN "dropped"
                 ELSE IF throws THEN "threw" ELSE "emitted"]

\* A handler that emits on the mapped channel only, when there is one.
RunHandlerMappedOnly(topic, event, io, failAt) ==
    LET payload == extractPayload(event)
        c1 == emitToAll(io, PassthroughChannel,
                        Obj([eventName |-> Str(topic), payload |-> payload, raw |-> event]),
                        failAt = 1)
        c2 == emitToAll(io, Mapped(topic), payload, failAt = 2)
    IN  IF Mapped(topic) # NoChannel
          THEN [source |-> "handler", topic |-> topic, event |-> event, io |-> io, subCalls |-> <<>>,
                calls |-> <<c2>>, caught |-> c2.outcome = "threw"]
          ELSE [source |-> "handler", topic |-> topic, event |-> event, io |-> io, subCalls |-> <<>>,
                calls |-> <<c1>>, caught |-> c1.outcome = "threw"]

\* A handler that passes the raw event on to the mapped channel.
RunHandlerRawToMapped(topic, event, io, failAt) ==
    LET payload == extractPayload(event)
        c1 == emitToAll(io, PassthroughChannel,
                        Obj([eventName |-> Str(topic), payload |-> payload, raw |-> event]),
                        failAt = 1)
        c2 == emitToAll(io, Mapped(topic), event, failAt = 2)
    IN  IF c1.outcome = "threw"
          THEN [source |-> "handler", topic |-> topic, event |-> event, io |-> io, subCalls |-> <<>>,
                calls |-> <<c1>>, caught |-> TRUE]
          ELSE IF Mapped(topic) # NoChannel
            THEN [source |-> "handler", topic |-> topic, event |-> event, io |-> io, subCalls |-> <<>>,
                  calls |-> <<c1, c2>>, caught |-> c2.outcome = "threw"]
            ELSE [source |-> "handler", topic |-> topic, event |-> event, io |-> io, subCalls |-> <<>>,
                  calls |-> <<c1>>, caught |-> FALSE]

\* A handler with one try block per emit: the mapped emit is made whatever
\* became of the passthrough emit.
RunHandlerSeparateTries(topic, event, io, failAt) ==
    LET payload == extractPayload(event)
        c1 == emitToAll(io, PassthroughChannel,
                        Obj([eventName |-> Str(topic), payload |-> payload, raw |-> event]),
                        failAt = 1)
        c2 == emitToAll(io, Mapped(topic), payload, failAt = 2)
    IN  IF Mapped(topic) # NoChannel
          THEN [source |-> "handler", topic |-> topic, event |-> event, io |-> io, subCalls |-> <<>>,
                calls |-> <<c1, c2>>,
                caught |-> c1.outcome = "threw" \/ c2.outcome = "threw"]
          ELSE [source |-> "handler", topic |-> topic, event |-> event, io |-> io, subCalls |-> <<>>,
                calls |-> <<c1>>, caught |-> c1.outcome = "threw"]

\* A handler that acknowledges the event once it has emitted, as the handler
\* of watchSub does.
RunHandlerAcks(topic, event, io, failAt) ==
    LET payload == extractPayload(event)
        c1 == emitToAll(io, PassthroughChannel,
                        Obj([eventName |-> Str(topic), payload |-> payload, raw |-> event]),
                        failAt = 1)
        c2 == emitToAll(io, Mapped(topic), payload, failAt = 2)
    IN  IF c1.outcome = "threw"
          THEN [source |-> "handler", topic |-> topic, event |-> event, io |-> io, subCalls |-> <<>>,
                calls |-> <<c1>>, caught |-> TRUE]
          ELSE IF Mapped(topic) # NoChannel
            THEN [source |-> "handler", topic |-> topic, event |-> event, io |-> io,
                  subCalls |-> IF c2.outcome = "threw" THEN <<>> ELSE <<"ack">>,
                  calls |-> <<c1, c2>>, caught |-> c2.outcome = "threw"]
            ELSE [source |-> "handler", topic |-> topic, event |-> event, io |-> io,
                  subCalls |-> <<"ack">>,
                  calls |-> <<c1>>, caught |-> FALSE]

\* One run of the subscription handler of `topic` on `event`, to its end (it
\* awaits nothing): the emitToAll calls it makes, in order, and whether its
\* catch block ran.  failAt: the call whose io.emit raises (0: none).
RunHandler(topic, event, io, failAt) ==
    LET payload == extractPayload(event)
        c1 == emitToAll(io, PassthroughChannel,
                        Obj([eventName |-> Str(topic), payload |-> payload, raw |-> event]),
                        failAt = 1)
        c2 == emitToAll(io, Mapped(topic), payload, failAt = 2)
    IN  IF c1.outcome = "threw"
          THEN [source |-> "handler", topic |-> topic, event |-> event, io |-> io, subCalls |-> <<>>,
                calls |-> <<c1>>, caught |-> TRUE]
          ELSE IF Mapped(topic) # NoChannel
            THEN [source |-> "handler", topic |-> topic, event |-> event, io |-> io, subCalls |-> <<>>,
                  calls |-> <<c1, c2>>, caught |-> c2.outcome = "threw"]
            ELSE [source |-> "handler", topic |-> topic, event |-> event, io |-> io, subCalls |-> <<>>,
                  calls |-> <<c1>>, caught |-> FALSE]

\* The emit of a handler run that can raise: none while io is not
\* initialized (emitToAll returns before io.emit), else the first, or the
\* second when the topic is mapped.
FailPoints(topic, io) ==
    IF io = NullRef THEN {0}
    ELSE IF Mapped(topic) # NoChannel THEN {0, 1, 2} ELSE {0, 1}

\* The synthetic readings of the demo timer explored: the corners of
\* randInt(35, 75), randInt(30, 65), 22 + Math.random() * 6, randInt(3500, 14000).
ReadingSamples ==
    { Obj([moisture |-> Num(30), level |-> Num(35), celsius |-> Num(2200),
           lux |-> Num(3500), timestamp |-> Num(1000)]),
      Obj([moisture |-> Num(65), level |-> Num(75), celsius |-> Num(2799),
           lux |-> Num(14000), timestamp |-> Num(6000)]) }

\* One run of the interval callback set for `topic`.
RunTimer(topic, reading, io) ==
    [source |-> "timer", topic |-> topic, event |-> Undefined, io |-> io, subCalls |-> <<>>,
     calls  |-> IF Mapped(topic) # NoChannel
                  THEN <<emitToAll(io, Mapped(topic), reading, FALSE)>>
                  ELSE <<>>,
     caught |-> FALSE]

\* a || b on environment values.
OrEnv(a, b) == IF Truthy(a) THEN a ELSE b

\* An entry of EVENT_TO_PUBLISH between two commas: a text, padded with
\* blanks or not.  trim() leaves the text.
Trim(entry) == entry.text

\* A selection that keeps the empty entries.
envTopicsKeepsEmpty(entries) ==
    [i \in DOMAIN entries |-> Trim(entries[i])]

\* (process.env.EVENT_TO_PUBLISH || "").split(",").map(trim).filter(Boolean),
\* from the entries the split yields.
envTopicsOf(entries) ==
    SelectSeq([i \in DOMAIN entries |-> Trim(entries[i])], LAMBDA t : t # "")

\* topics = envTopics.length > 0 ? envTopics : Object.keys(socketEventMap)
SelectedTopics(entries) ==
    IF Len(envTopicsOf(entries)) > 0 THEN envTopicsOf(entries) ELSE socketEventMapKeys

\* The entries of EVENT_TO_PUBLISH explored.
EntrySamples ==
    { [text |-> "", pad |-> TRUE],
      [text |-> "progo/plant/soil", pad |-> TRUE],
      [text |-> "progo/unknown/x", pad |-> FALSE] }

\* Bound: the number of comma-separated entries of EVENT_TO_PUBLISH.
MaxEntries == 2

\* What split(",") can yield: at least one entry (one empty entry for an
\* unset or empty variable).
EntryLists == UNION { [1..n -> EntrySamples] : n \in 1..MaxEntries }

\* The credentials explored.
CredentialSamples ==
    { [ENSYNC_CLIENT_ID |-> "client-1", CLIENT_ACCESS_KEY |-> Unset,   SECRET_KEY |-> "secret"],
      [ENSYNC_CLIENT_ID |-> Unset,      CLIENT_ACCESS_KEY |-> "key-1", SECRET_KEY |-> "secret"],
      [ENSYNC_CLIENT_ID |-> Unset,      CLIENT_ACCESS_KEY |-> Unset,   SECRET_KEY |-> "secret"],
      [ENSYNC_CLIENT_ID |-> "client-1", CLIENT_ACCESS_KEY |-> Unset,   SECRET_KEY |-> Unset],
      [ENSYNC_CLIENT_ID |-> "",         CLIENT_ACCESS_KEY |-> "",      SECRET_KEY |-> "secret"],
      [ENSYNC_CLIENT_ID |-> "client-1", CLIENT_ACCESS_KEY |-> Unset,   SECRET_KEY |-> ""] }

\* The environments explored: every credential sample with a single-entry
\* EVENT_TO_PUBLISH, and the first one (ENSYNC_CLIENT_ID and SECRET_KEY set)
\* with every list of entries.
RelayEnvSamples ==
    { env \in [cred : CredentialSamples, EVENT_TO_PUBLISH : EntryLists] :
        \/ Len(env.EVENT_TO_PUBLISH) = 1
        \/ (env.cred.ENSYNC_CLIENT_ID = "client-1" /\ env.cred.SECRET_KEY = "secret") }

clientAccessKey == OrEnv(rEnv.cred.ENSYNC_CLIENT_ID, rEnv.cred.CLIENT_ACCESS_KEY)
appSecretKey    == rEnv.cred.SECRET_KEY

\* The events the bus delivers, as explored.
EventSamples ==
    { Obj([payload |-> FlatPayload]),
      Obj([data |-> FlatPayload]),
      FlatPayload,
      Obj([payload |-> Obj([data |-> Num(0)]), data |-> Null]) }

NoRun == [source |-> "none", topic |-> "", event |-> Undefined, io |-> NullRef,
          subCalls |-> <<>>, calls |-> <<>>, caught |-> FALSE]

RelayInit ==
    /\ rEnv \in RelayEnvSamples
    /\ rPc = "start"
    /\ topics = <<>>
    /\ topicIdx = 0
    /\ timers = <<>>
    /\ subResults = <<>>
    /\ ioRef = NullRef
    /\ lastRun = NoRun
    /\ sPc = "start"
    /\ raised = 0
    /\ wire = <<>>

RelayIdle ==
    /\ rEnv = [cred |-> CHOOSE c \in CredentialSamples : TRUE,
               EVENT_TO_PUBLISH |-> CHOOSE e \in EntryLists : TRUE]
    /\ rPc = "idle"
    /\ topics = <<>>
    /\ topicIdx = 0
    /\ timers = <<>>
    /\ subResults = <<>>
    /\ ioRef = NullRef
    /\ lastRun = NoRun
    /\ sPc = "idle"
    /\ raised = 0
    /\ wire = <<>>

\* initSocket(io): the reference is kept, createClient is called and awaited.
\* Nothing is emitted.
InitSocket ==
    /\ sPc = "start"
    /\ ioRef' = IoServer
    /\ sPc' = "creating"
    /\ UNCHANGED <<rEnv, rPc, topics, topicIdx, timers, subResults, lastRun, raised, wire>>

\* initSocket, createClient resolves: the connection listener is registered.
SocketCreateOk ==
    /\ sPc = "creating"
    /\ sPc' = "listening"
    /\ UNCHANGED <<rEnv, rPc, topics, topicIdx, timers, subResults, ioRef, lastRun, raised, wire>>

\* A failure of createClient that takes the io reference back.
SocketCreateFailClearsRef ==
    /\ sPc = "creating"
    /\ sPc' = "rejected"
    /\ ioRef' = NullRef
    /\ UNCHANGED <<rEnv, rPc, topics, topicIdx, timers, subResults, lastRun, raised, wire>>

\* initSocket, createClient rejects: initSocket rejects; no listener is
\* registered, and ioRef keeps the server.
SocketCreateFail ==
    /\ sPc = "creating"
    /\ sPc' = "rejected"
    /\ UNCHANGED <<rEnv, rPc, topics, topicIdx, timers, subResults, ioRef, lastRun, raised, wire>>

\* startSubscriber, missing credentials: warn and return.
StartMissingCredentials ==
    /\ rPc = "start"
    /\ ~ Truthy(clientAccessKey) \/ ~ Truthy(appSecretKey)
    /\ rPc' = "uninitialized"
    /\ UNCHANGED <<rEnv, topics, topicIdx, timers, subResults, ioRef, lastRun, sPc, raised, wire>>

\* A start that goes on to createClient whatever the credentials.
StartSubscriberUnchecked ==
    /\ rPc = "start"
    /\ topics' = SelectedTopics(rEnv.EVENT_TO_PUBLISH)
    /\ rPc' = "creating"
    /\ UNCHANGED <<rEnv, topicIdx, timers, subResults, ioRef, lastRun, sPc, raised, wire>>

\* startSubscriber, credentials present: select the topics, call createClient.
StartSubscriber ==
    /\ rPc = "start"
    /\ ~ (~ Truthy(clientAccessKey) \/ ~ Truthy(appSecretKey))
    /\ topics' = SelectedTopics(rEnv.EVENT_TO_PUBLISH)
    /\ rPc' = "creating"
    /\ UNCHANGED <<rEnv, topicIdx, timers, subResults, ioRef, lastRun, sPc, raised, wire>>

\* createClient resolves: enter the for loop.
RelayCreateOk ==
    /\ rPc = "creating"
    /\ topicIdx' = 1
    /\ rPc' = "loop"
    /\ UNCHANGED <<rEnv, topics, timers, subResults, ioRef, lastRun, sPc, raised, wire>>

\* createClient rejects: the outer catch logs and closes.
RelayCreateFail ==
    /\ rPc = "creating"
    /\ rPc' = "init_failed"
    /\ UNCHANGED <<rEnv, topics, topicIdx, timers, subResults, ioRef, lastRun, sPc, raised, wire>>

\* The loop body for topics[topicIdx]: set the demo timer, call subscribe.
SetTimerAndSubscribe ==
    /\ rPc = "loop"
    /\ timers' = Append(timers, topics[topicIdx])
    /\ rPc' = "subscribing"
    /\ UNCHANGED <<rEnv, topics, topicIdx, subResults, ioRef, lastRun, sPc, raised, wire>>

\* The end of a loop body: the next topic, or the end of startSubscriber.
LoopAdvance ==
    IF topicIdx < Len(topics)
      THEN topicIdx' = topicIdx + 1 /\ rPc' = "loop"
      ELSE topicIdx' = topicIdx /\ rPc' = "active"

\* subscribe resolves: the handler is registered with sub.on.
SubscribeOk ==
    /\ rPc = "subscribing"
    /\ subResults' = Append(subResults, [topic |-> topics[topicIdx], ok |-> TRUE])
    /\ LoopAdvance
    /\ UNCHANGED <<rEnv, topics, timers, ioRef, lastRun, sPc, raised, wire>>

\* A rejection of subscribe that the outer catch takes: the loop is left.
SubscribeFailAborts ==
    /\ rPc = "subscribing"
    /\ subResults' = Append(subResults, [topic |-> topics[topicIdx], ok |-> FALSE])
    /\ rPc' = "init_failed"
    /\ UNCHANGED <<rEnv, topics, topicIdx, timers, ioRef, lastRun, sPc, raised, wire>>

\* subscribe rejects: the inner catch warns; the loop goes on.
SubscribeFail ==
    /\ rPc = "subscribing"
    /\ subResults' = Append(subResults, [topic |-> topics[topicIdx], ok |-> FALSE])
    /\ LoopAdvance
    /\ UNCHANGED <<rEnv, topics, timers, ioRef, lastRun, sPc, raised, wire>>

\* The io.emit calls of a callback run, in order: every emitToAll call that
\* got past the ioRef test, with the channel and the payload it passed.
EmitsOf(run) ==
    LET reached == SelectSeq(run.calls, LAMBDA c : c.outcome # "dropped")
    IN  [k \in DOMAIN reached |->
            [channel |-> reached[k].channel, payload |-> reached[k].payload]]

\* A delivery after which a handler that caught an exception is no longer
\* registered.
DeliverToDropsHandler(i) ==
    /\ subResults[i].ok
    /\ \E e \in EventSamples, failAt \in FailPoints(subResults[i].topic, ioRef) :
          LET run == RunHandler(subResults[i].topic, e, ioRef, failAt)
          IN  /\ lastRun' = run
              /\ wire' = EmitsOf(run)
              /\ raised' = IF run.caught THEN i ELSE raised
              /\ subResults' = IF run.caught
                                 THEN [subResults EXCEPT ![i].ok = FALSE]
                                 ELSE subResults
    /\ UNCHANGED <<rEnv, rPc, topics, topicIdx, timers, ioRef, sPc>>

\* The bus delivers an event to the handler registered by subscription i,
\* which runs to its end; the handler stays registered.
DeliverTo(i) ==
    /\ subResults[i].ok
    /\ \E e \in EventSamples, failAt \in FailPoints(subResults[i].topic, ioRef) :
          LET run == RunHandler(subResults[i].topic, e, ioRef, failAt)
          IN  /\ lastRun' = run
              /\ wire' = EmitsOf(run)
              /\ raised' = IF run.caught THEN i ELSE raised
    /\ UNCHANGED <<rEnv, rPc, topics, topicIdx, timers, subResults, ioRef, sPc>>

Deliver == \E i \in DOMAIN subResults : DeliverTo(i)

\* A demo timer that fires only while its topic has a registered handler.
TimerFireWhenSubscribed ==
    /\ \E i \in DOMAIN timers, r \in ReadingSamples :
          /\ \E j \in DOMAIN subResults :
                subResults[j].topic = timers[i] /\ subResults[j].ok
          /\ LET run == RunTimer(timers[i], r, ioRef)
             IN  /\ lastRun' = run
                 /\ wire' = EmitsOf(run)
    /\ UNCHANGED <<rEnv, rPc, topics, topicIdx, timers, subResults, ioRef, sPc, raised>>

\* A demo timer fires.
TimerFire ==
    /\ \E i \in DOMAIN timers, r \in ReadingSamples :
          LET run == RunTimer(timers[i], r, ioRef)
          IN  /\ lastRun' = run
              /\ wire' = EmitsOf(run)
    /\ UNCHANGED <<rEnv, rPc, topics, topicIdx, timers, subResults, ioRef, sPc, raised>>

RelayNext ==
    \/ InitSocket /\ UNCHANGED <<genVars, extractVars, socketVars, dashVars>>
    \/ SocketCreateOk /\ UNCHANGED <<genVars, extractVars, socketVars, dashVars>>
    \/ SocketCreateFail /\ UNCHANGED <<genVars, extractVars, socketVars, dashVars>>
    \/ StartMissingCredentials /\ UNCHANGED <<genVars, extractVars, socketVars, dashVars>>
    \/ StartSubscriber /\ UNCHANGED <<genVars, extractVars, socketVars, dashVars>>
    \/ RelayCreateOk /\ UNCHANGED <<genVars, extractVars, socketVars, dashVars>>
    \/ RelayCreateFail /\ UNCHANGED <<genVars, extractVars, socketVars, dashVars>>
    \/ SetTimerAndSubscribe /\ UNCHANGED <<genVars, extractVars, socketVars, dashVars>>
    \/ SubscribeOk /\ UNCHANGED <<genVars, extractVars, socketVars, dashVars>>
    \/ SubscribeFail /\ UNCHANGED <<genVars, extractVars, socketVars, dashVars>>
    \/ Deliver /\ UNCHANGED <<genVars, extractVars, socketVars, dashVars>>
    \/ TimerFire /\ UNCHANGED <<genVars, extractVars, socketVars, dashVars>>

-----------------------------------------------------------------------------
(* Socket service: the plant_* events of a client (socket.service.js)       *)

\* receiversId = [process.env.RECEIVER_IDENTIFICATION_NUMBER]: the list keeps
\* whatever the environment holds, undefined included.
SvcReceiversOf(env) == <<env>>

\* The events a client socket's handlers are registered for, in source order.
PlantEvents == <<"plant_water", "plant_soil", "plant_temp", "plant_light">>

\* The field each handler takes from the event's data, beside timestamp.
PlantField(ev) ==
    CASE ev = "plant_water" -> "level"
      [] ev = "plant_soil"  -> "moisture"
      [] ev = "plant_temp"  -> "celsius"
      [] ev = "plant_light" -> "lux"

\* The topic each handler publishes on.
PlantTopic(ev) ==
    CASE ev = "plant_water" -> plantWaterEventName
      [] ev = "plant_soil"  -> plantSoilEventName
      [] ev = "plant_temp"  -> plantTempEventName
      [] ev = "plant_light" -> plantLightEventName

\* The object {<field>: value, timestamp: ts}.
Reading(field, value, ts) ==
    Obj([k \in {field, "timestamp"} |-> IF k = "timestamp" THEN ts ELSE value])

\* The data a client sends with event ev, as explored: two values at two
\* times, and a value without a timestamp.
ClientData(ev) ==
    { Reading(PlantField(ev), Num(v), Num(t)) : v \in {50, 52}, t \in TimeSamples }
        \cup { Obj([k \in {PlantField(ev)} |-> Num(50)]) }

\* No call of client.publish.
NoPublish == [topic |-> "", receivers |-> <<>>, data |-> Undefined]

\* One run of the handler of ev on data, up to its await.  The log line
\* before the try block formats the timestamp: new Date(undefined) is an
\* invalid date and toISOString raises, outside the try.  Inside the try,
\* publish is called when the receiver list is not empty.
RunClientHandler(ev, data, receivers) ==
    LET value     == Get(data, PlantField(ev))
        timestamp == Get(data, "timestamp")
    IN  IF timestamp = Undefined
          THEN [event |-> ev, args |-> data, publish |-> NoPublish, outcome |-> "raised"]
          ELSE IF Len(receivers) > 0
            THEN [event |-> ev, args |-> data,
                  publish |-> [topic     |-> PlantTopic(ev),
                               receivers |-> receivers,
                               data      |-> Reading(PlantField(ev), value, timestamp)],
                  outcome |-> "pending"]
            ELSE [event |-> ev, args |-> data, publish |-> NoPublish, outcome |-> "done"]

NoClientRun == [event |-> "", args |-> Undefined, publish |-> NoPublish, outcome |-> "none"]

SocketInit ==
    /\ svcEnvReceiver \in EnvSamples
    /\ svcReceiversId = SvcReceiversOf(svcEnvReceiver)
    /\ connected = FALSE
    /\ clientRun = NoClientRun

SocketIdle ==
    /\ svcEnvReceiver = Unset
    /\ svcReceiversId = SvcReceiversOf(Unset)
    /\ connected = FALSE
    /\ clientRun = NoClientRun

\* A client connects: the connection listener registers the handlers.
Connect ==
    /\ sPc = "listening"
    /\ ~ connected
    /\ connected' = TRUE
    /\ UNCHANGED <<svcEnvReceiver, svcReceiversId, clientRun>>

\* A connected client emits a plant_* event: its handler runs up to the await.
ClientEmit ==
    /\ connected
    /\ \E i \in DOMAIN PlantEvents :
          \E data \in ClientData(PlantEvents[i]) :
              clientRun' = RunClientHandler(PlantEvents[i], data, svcReceiversId)
    /\ UNCHANGED <<svcEnvReceiver, svcReceiversId, connected>>

\* The awaited publish resolves.
ClientPublishResolve ==
    /\ clientRun.outcome = "pending"
    /\ clientRun' = [clientRun EXCEPT !.outcome = "ok"]
    /\ UNCHANGED <<svcEnvReceiver, svcReceiversId, connected>>

\* The awaited publish rejects: the catch logs the topic and the error.
ClientPublishReject ==
    /\ clientRun.outcome = "pending"
    /\ clientRun' = [clientRun EXCEPT !.outcome = "failed"]
    /\ UNCHANGED <<svcEnvReceiver, svcReceiversId, connected>>

SocketNext ==
    \/ InitSocket /\ UNCHANGED <<genVars, extractVars, socketVars, dashVars>>
    \/ SocketCreateOk /\ UNCHANGED <<genVars, extractVars, socketVars, dashVars>>
    \/ SocketCreateFail /\ UNCHANGED <<genVars, extractVars, socketVars, dashVars>>
    \/ Connect /\ UNCHANGED <<genVars, extractVars, relayVars, dashVars>>
    \/ ClientEmit /\ UNCHANGED <<genVars, extractVars, relayVars, dashVars>>
    \/ ClientPublishResolve /\ UNCHANGED <<genVars, extractVars, relayVars, dashVars>>
    \/ ClientPublishReject /\ UNCHANGED <<genVars, extractVars, relayVars, dashVars>>

-----------------------------------------------------------------------------
(* Dashboard: the metrics state of App (BicycleSimulator.jsx)               *)

\* The fields of metrics the stat cards format.
MetricFields == {"waterLevel", "soilMoisture", "temperatureC", "lightLux"}

\* The field of metrics each event's listener sets.
MetricOf(ev) ==
    CASE ev = "plant_water" -> "waterLevel"
      [] ev = "plant_soil"  -> "soilMoisture"
      [] ev = "plant_temp"  -> "temperatureC"
      [] ev = "plant_light" -> "lightLux"

\* {}
EmptyObject == Obj([k \in {} |-> Undefined])

\* {...a, ...b}
Spread(a, b) ==
    Obj([k \in DOMAIN a.fields \cup DOMAIN b.fields |->
            IF k \in DOMAIN b.fields THEN b.fields[k] ELSE a.fields[k]])

\* The listener of ev: the patch {<metric>: <field of the data>}.
PatchOf(ev, data) ==
    Obj([k \in {MetricOf(ev)} |-> Get(data, PlantField(ev))])

\* update(patch): setMetrics((prev) => ({ ...(prev || {}), ...patch }))
update(prev, patch) == Spread(Or(prev, EmptyObject), patch)

\* The values the explored events carry (temperature in tenths of a degree).
MetricSamples(ev) ==
    CASE ev = "plant_water" -> {50, 52}
      [] ev = "plant_soil"  -> {47, 50}
      [] ev = "plant_temp"  -> {225, 229}
      [] ev = "plant_light" -> {8000, 8900}

\* The data of the events the dashboard receives, as explored: readings of
\* the shape the generator publishes, and a message without the value field.
DashData(ev) ==
    { Reading(PlantField(ev), Num(v), Num(1000)) : v \in MetricSamples(ev) }
        \cup { Obj([timestamp |-> Num(1000)]) }

\* The value props of the four stat cards for metrics m:
\* metrics ? metrics.<field>.toFixed(n) : "--".  toFixed on a field that is
\* undefined raises a TypeError.  The values explored are integers in the
\* unit displayed, which toFixed leaves as they are.
Render(m) ==
    IF ~ ToBoolean(m)
      THEN [threw |-> FALSE, cards |-> [f \in MetricFields |-> Str("--")]]
      ELSE IF \E f \in MetricFields : Get(m, f) = Undefined
        THEN [threw |-> TRUE, cards |-> [f \in MetricFields |-> Undefined]]
        ELSE [threw |-> FALSE, cards |-> [f \in MetricFields |-> Get(m, f)]]

DashInit ==
    /\ metrics = Null
    /\ rendered = Render(Null)

DashIdle ==
    /\ metrics = Null
    /\ rendered = [threw |-> FALSE, cards |-> [f \in MetricFields |-> Str("idle")]]

\* A plant_* event arrives: its listener updates metrics, and the cards are
\* rendered from the new state.
OnPlantEvent(ev) ==
    \E data \in DashData(ev) :
        /\ metrics' = update(metrics, PatchOf(ev, data))
        /\ rendered' = Render(update(metrics, PatchOf(ev, data)))

onWater == OnPlantEvent("plant_water")
onSoil  == OnPlantEvent("plant_soil")
onTemp  == OnPlantEvent("plant_temp")
onLight == OnPlantEvent("plant_light")

DashNext ==
    \/ onWater /\ UNCHANGED <<genVars, extractVars, relayVars, socketVars>>
    \/ onSoil /\ UNCHANGED <<genVars, extractVars, relayVars, socketVars>>
    \/ onTemp /\ UNCHANGED <<genVars, extractVars, relayVars, socketVars>>
    \/ onLight /\ UNCHANGED <<genVars, extractVars, relayVars, socketVars>>

\* The components at rest, for the specifications of the other components.
ExtractIdle ==
    /\ xEvt = Undefined
    /\ xPc = "idle"
    /\ xOnce = Undefined
    /\ xTest = Undefined
    /\ xTwice = Undefined

GenIdle ==
    /\ envReceiver = Unset
    /\ receiversId = <<>>
    /\ state = CHOOSE s \in InitSamples : TRUE
    /\ now = 0
    /\ tick = NoTick
    /\ ticks = 0
    /\ pc = "idle"
    /\ metric = 1
    /\ sent = <<>>

\* The relay at rest, with initSocket about to be called.
RelayIdleSocketStarting ==
    /\ rEnv = [cred |-> CHOOSE c \in CredentialSamples : TRUE,
               EVENT_TO_PUBLISH |-> CHOOSE e \in EntryLists : TRUE]
    /\ rPc = "idle"
    /\ topics = <<>>
    /\ topicIdx = 0
    /\ timers = <<>>
    /\ subResults = <<>>
    /\ ioRef = NullRef
    /\ lastRun = NoRun
    /\ sPc = "start"
    /\ raised = 0
    /\ wire = <<>>

Init == GenInit /\ ExtractIdle /\ RelayIdle /\ SocketIdle /\ DashIdle

Next == GenNext

Spec == Init /\ [][Next]_vars

\* Timers fire and the bus client's calls return (one way or the other); the
\* synchronous steps of the loop run.
GenFairness ==
    /\ WF_vars(Drift)
    /\ WF_vars(PublishCall)
    /\ WF_vars(PublishSkip)
    /\ WF_vars(PublishResolve \/ PublishReject)
    /\ WF_vars(SleepDone)

FairSpec == Init /\ [][Next]_vars /\ GenFairness

\* extractPayload on its own: every message, extracted once and twice.
ExtractNext ==
    \/ ExtractOnce /\ UNCHANGED <<genVars, relayVars, socketVars, dashVars>>
    \/ ExtractTwice /\ UNCHANGED <<genVars, relayVars, socketVars, dashVars>>

ExtractSpecInit == ExtractInit /\ GenIdle /\ RelayIdle /\ SocketIdle /\ DashIdle

ExtractSpec == ExtractSpecInit /\ [][ExtractNext]_vars

\* The relay and the broadcaster on their own.
RelaySpecInit == RelayInit /\ GenIdle /\ ExtractIdle /\ SocketIdle /\ DashIdle

RelaySpec == RelaySpecInit /\ [][RelayNext]_vars

\* The socket service on its own: initSocket, a client, its plant_* events.
SocketSpecInit == SocketInit /\ GenIdle /\ ExtractIdle /\ RelayIdleSocketStarting /\ DashIdle

SocketSpec == SocketSpecInit /\ [][SocketNext]_vars

\* The dashboard on its own.
DashSpecInit == DashInit /\ GenIdle /\ ExtractIdle /\ RelayIdle /\ SocketIdle

DashSpec == DashSpecInit /\ [][DashNext]_vars

-----------------------------------------------------------------------------
(* Generator: claims                                                        *)

SomeFailed == \E i \in DOMAIN sent : sent[i].outcome = "failed"

\* publishLoop has passed createClient and has not rejected.
Started == pc \notin {"create", "crashed"}

\* C1: after the drift step of every tick, and in every value handed to
\* publish, water level is in [5, 95], soil moisture in [10, 90], temperature
\* in [12, 35] and light in [500, 20000], whatever deltas were drawn; a
\* temperature the delta pushes above 35 (36, say) becomes 35.
C1_ValuesWithinClampBounds ==
    /\ state.waterLevel \in 5..95
    /\ state.soilMoisture \in 10..90
    /\ state.temperatureC \in 1200..3500
    /\ state.lightLux \in 500..20000
    /\ \A i \in DOMAIN sent :
          /\ sent[i].kind = "water"       => sent[i].data.value \in 5..95
          /\ sent[i].kind = "soil"        => sent[i].data.value \in 10..90
          /\ sent[i].kind = "temperature" => sent[i].data.value \in 120..350
          /\ sent[i].kind = "light"       => sent[i].data.value \in 500..20000
    /\ (ticks > 0 /\ tick.prev.temperatureC + tick.delta.temperatureC > 3500)
          => state.temperatureC = 3500
    /\ clamp(3600, 1200, 3500) = 3500

\* C1 witness: a tick whose temperature delta overshot 35 C, clamped to 35.00,
\* and published as 35.0.
C1_Witness ==
    /\ ticks > 0
    /\ tick.prev.temperatureC + tick.delta.temperatureC > 3500
    /\ state.temperatureC = 3500
    /\ \E i \in DOMAIN sent : sent[i].kind = "temperature" /\ sent[i].data.value = 350

\* C2: with no receiver identifier configured the receiver list is empty, no
\* tick ever calls client.publish (so none is pending and none has failed),
\* and the started loop always has a next step.
C2_NoReceiversNoPublish ==
    ~ Truthy(envReceiver) =>
        /\ receiversId = <<>>
        /\ sent = <<>>
        /\ pc # "await"
        /\ Started => ENABLED Next

\* C2 witness: without receivers, a tick has drifted the state and has gone
\* through all four try blocks, back to the head of the loop.
C2_Witness ==
    /\ envReceiver = Unset
    /\ pc = "loop"
    /\ ticks >= 2
    /\ state # tick.prev
    /\ sent = <<>>

\* C3: with receivers configured, every try block that has been passed has
\* called publish, whatever the outcomes of the earlier calls: at the sleep
\* after block m the tick has made exactly the first m calls, at the head of
\* the loop all four.
C3_FailureDoesNotSkipOthers ==
    Len(receiversId) > 0 =>
        /\ pc = "sleep" => Len(sent) = metric
        /\ pc = "try"   => Len(sent) = metric - 1
        /\ pc = "await" => Len(sent) = metric
        /\ (pc = "loop" /\ ticks > 0) =>
              /\ Len(sent) = 4
              /\ {sent[i].kind : i \in DOMAIN sent} = {"water", "soil", "temperature", "light"}

\* C3 witness: a finished tick whose water publish failed and whose three
\* later publishes were attempted all the same (the soil one failing too).
C3_Witness ==
    /\ pc = "loop"
    /\ Len(sent) = 4
    /\ sent[1].outcome = "failed"
    /\ sent[2].outcome = "failed"
    /\ sent[3].outcome = "ok"
    /\ sent[4].kind = "light"

\* C4: once the loop has started it never leaves it (no step takes a started
\* publishLoop to a terminated state), and after any failed publish a next
\* tick eventually begins.
C4_FailureNeverHaltsLoop ==
    /\ [][Started => Started']_vars
    /\ (Started /\ SomeFailed) ~> (pc = "try" /\ metric = 1 /\ sent = <<>>)

\* C4 witness: the head of the loop reached again after a tick in which all
\* four publishes failed.
C4_Witness ==
    /\ pc = "loop"
    /\ Len(sent) = 4
    /\ \A i \in DOMAIN sent : sent[i].outcome = "failed"

\* C5: in each tick publish is called at most once per metric kind, failed
\* or not.
C5_AtMostOncePerKind ==
    /\ Len(sent) <= 4
    /\ \A i, j \in DOMAIN sent : i # j => sent[i].kind # sent[j].kind

\* C5 witness: a publish has failed and the loop has moved on to the next
\* metric's call.
C5_Witness ==
    /\ pc = "await"
    /\ metric = 3
    /\ sent[2].outcome = "failed"
    /\ sent[3].kind = "temperature"

\* C6: the calls of a tick are water, soil, temperature, light in that order,
\* each made only when the one before has returned; and a tick begins (the
\* calls of the previous one are forgotten) only when the previous tick's
\* light publish has returned.
C6_FixedOrderNoOverlap ==
    /\ [](/\ \A i \in DOMAIN sent :
                /\ i = 1 => sent[i].kind = "water"
                /\ i = 2 => sent[i].kind = "soil"
                /\ i = 3 => sent[i].kind = "temperature"
                /\ i = 4 => sent[i].kind = "light"
                /\ i < Len(sent) => sent[i].outcome # "pending")
    /\ [][(ticks > 0 /\ Len(receiversId) > 0 /\ pc' = "try" /\ metric' = 1 /\ pc # "try")
            => (/\ Len(sent) = 4
                /\ sent[4].kind = "light"
                /\ sent[4].outcome # "pending")]_vars

\* C6 witness: the second tick's water publish is in flight.
C6_Witness ==
    /\ ticks = 2
    /\ pc = "await"
    /\ metric = 1
    /\ sent[1].kind = "water"

\* C19: the water publish of a tick goes to 'progo/plant/water' with the
\* payload {level, timestamp} and nothing else, where level is the tick's
\* prior water level plus its delta, clamped to [5, 95] (52 for 50 and +2),
\* and timestamp is the time read at the head of the tick.
C19_WaterPayload ==
    \A i \in DOMAIN sent :
        sent[i].kind = "water" =>
            /\ sent[i].topic = "progo/plant/water"
            /\ sent[i].data =
                  [field     |-> "level",
                   value     |-> Max(5, Min(95, tick.prev.waterLevel + tick.delta.waterLevel)),
                   timestamp |-> now]
            /\ (tick.prev.waterLevel = 50 /\ tick.delta.waterLevel = 2)
                  => sent[i].data.value = 52

\* C19 witness: a tick read the time 6000 with water level 50 and drew +2:
\* {level: 52, timestamp: 6000} published on 'progo/plant/water'.
C19_Witness ==
    /\ Len(sent) >= 1
    /\ tick.prev.waterLevel = 50
    /\ tick.delta.waterLevel = 2
    /\ sent[1].topic = "progo/plant/water"
    /\ sent[1].data = [field |-> "level", value |-> 52, timestamp |-> 6000]

\* The ranges the initial values are drawn from lie in the realistic
\* sub-range, strictly inside the clamp bounds.
InitRangesInsideClamp ==
    /\ WaterInit \subseteq 35..75
    /\ SoilInit \subseteq 30..65
    /\ TempInit \subseteq 2200..2800
    /\ LightInit \subseteq 3500..14000
    /\ WaterLo < 35 /\ 75 < WaterHi
    /\ SoilLo < 30 /\ 65 < SoilHi
    /\ TempLo < 2200 /\ 2800 < TempHi
    /\ LightLo < 3500 /\ 14000 < LightHi

\* C20: until the first drift the state is the initial state, with water
\* level in [35, 75], soil moisture in [30, 65], temperature in [22, 28] and
\* light in [3500, 14000], each strictly inside its clamp range.
C20_InitialStateInSubRange ==
    /\ InitRangesInsideClamp
    /\ ticks = 0 =>
          /\ state.waterLevel \in 35..75
          /\ state.soilMoisture \in 30..65
          /\ state.temperatureC \in 2200..2800
          /\ state.lightLux \in 3500..14000
          /\ WaterLo < state.waterLevel /\ state.waterLevel < WaterHi
          /\ SoilLo < state.soilMoisture /\ state.soilMoisture < SoilHi
          /\ TempLo < state.temperatureC /\ state.temperatureC < TempHi
          /\ LightLo < state.lightLux /\ state.lightLux < LightHi

\* C20 witness: the loop has started and has not drifted yet, from the top
\* corner of the initial ranges.
C20_Witness ==
    /\ pc = "loop"
    /\ ticks = 0
    /\ state = [waterLevel |-> 75, soilMoisture |-> 65, temperatureC |-> 2799, lightLux |-> 14000]

\* The value the try block of kind k reports for state s.
Reported(k, s) ==
    CASE k = "water"       -> s.waterLevel
      [] k = "soil"        -> s.soilMoisture
      [] k = "temperature" -> (s.temperatureC + 5) \div 10
      [] k = "light"       -> s.lightLux

\* C21: the state and the tick's time change only in the step at the head
\* of a tick (from the loop head into the first try block); through the
\* publishes and the sleeps the state is the drifted state of the tick, and
\* every message of the tick reports that state and carries the tick's time.
C21_StateWrittenOncePerTick ==
    /\ [][(state' # state \/ now' # now \/ tick' # tick)
            => (pc = "loop" /\ pc' = "try" /\ metric' = 1)]_vars
    /\ [](ticks > 0 =>
            /\ state = [waterLevel   |-> Max(5, Min(95, tick.prev.waterLevel + tick.delta.waterLevel)),
                        soilMoisture |-> Max(10, Min(90, tick.prev.soilMoisture + tick.delta.soilMoisture)),
                        temperatureC |-> Max(1200, Min(3500, tick.prev.temperatureC + tick.delta.temperatureC)),
                        lightLux     |-> Max(500, Min(20000, tick.prev.lightLux + tick.delta.lightLux))]
            /\ \A i \in DOMAIN sent :
                  /\ sent[i].data.timestamp = now
                  /\ sent[i].data.value = Reported(sent[i].kind, state))

\* C21 witness: a finished tick that moved the state, whose four messages
\* report the moved state and the time 1000.
C21_Witness ==
    /\ pc = "loop"
    /\ Len(sent) = 4
    /\ state.waterLevel # tick.prev.waterLevel
    /\ \A i \in DOMAIN sent :
          /\ sent[i].data.timestamp = 1000
          /\ sent[i].data.value = Reported(sent[i].kind, state)

\* C23: the state after a tick's drift differs from the state before it by
\* at most 2 either way for water, 2 down or 3 up for soil, 900 either way
\* for light and 0.4 either way for temperature; and each value lies between
\* its prior value and that value plus the delta drawn, so clamping only
\* shortens a step.
C23_StepWithinDeltaRange ==
    /\ [][/\ state'.waterLevel - state.waterLevel \in -2..2
          /\ state'.soilMoisture - state.soilMoisture \in -2..3
          /\ state'.temperatureC - state.temperatureC \in -40..40
          /\ state'.lightLux - state.lightLux \in -900..900]_vars
    /\ [](ticks > 0 =>
            \A f \in {"waterLevel", "soilMoisture", "temperatureC", "lightLux"} :
                /\ Min(tick.prev[f], tick.prev[f] + tick.delta[f]) <= state[f]
                /\ state[f] <= Max(tick.prev[f], tick.prev[f] + tick.delta[f]))

\* C23 witness: soil moisture 89 drew +3 and was clamped to 90, a step of 1.
C23_Witness ==
    /\ ticks > 0
    /\ tick.prev.soilMoisture = 89
    /\ tick.delta.soilMoisture = 3
    /\ state.soilMoisture = 90

-----------------------------------------------------------------------------
(* extractPayload: claims                                                   *)

\* Field k of object m is present: it exists and is neither null nor undefined.
Present(m, k) == k \in DOMAIN m.fields /\ m.fields[k] # Null /\ m.fields[k] # Undefined

\* v is itself an envelope: an object with a payload or a data field present.
IsEnvelope(v) == v.type = "object" /\ (Present(v, "payload") \/ Present(v, "data"))

\* C9, as claimed: for every message m,
\* extractPayload(extractPayload(m)) = extractPayload(m).
C9_IdempotentOnEveryMessage ==
    xPc = "twice" => xTwice = xOnce

\* C9, amended: extracting again returns the extracted payload unchanged
\* exactly when that payload is not itself an envelope (it is a primitive,
\* null, or an object with neither payload nor data present); a payload that
\* is an envelope is unwrapped once more.
C9_IdempotentOnUnwrappedPayloads ==
    xPc = "twice" => (xTwice = xOnce <=> ~ IsEnvelope(xOnce))

\* C9 witness: {payload: {moisture: 44}} extracted to {moisture: 44}, and
\* {moisture: 44} extracted to itself.
C9_Witness ==
    /\ xPc = "twice"
    /\ xEvt = Obj([payload |-> FlatPayload])
    /\ xOnce = FlatPayload
    /\ xTwice = FlatPayload

\* C10: for an object message the result is the payload field when present,
\* otherwise the data field when present, otherwise the message; a message
\* that is not an object, or is null, is returned as it is; and the two
\* copies of extractPayload agree.
C10_PayloadThenDataThenRaw ==
    xPc \in {"once", "twice"} =>
        /\ (xEvt.type = "object" /\ Present(xEvt, "payload"))
              => xOnce = xEvt.fields["payload"]
        /\ (xEvt.type = "object" /\ ~ Present(xEvt, "payload") /\ Present(xEvt, "data"))
              => xOnce = xEvt.fields["data"]
        /\ (xEvt.type = "object" /\ ~ Present(xEvt, "payload") /\ ~ Present(xEvt, "data"))
              => xOnce = xEvt
        /\ xEvt.type # "object" => xOnce = xEvt
        /\ xTest = xOnce

\* C10 witness: {payload: 0, data: {moisture: 44}} yields the payload 0 (a
\* falsy payload is present, and goes before data), from both copies.
C10_Witness ==
    /\ xPc = "once"
    /\ xEvt = Obj([payload |-> Num(0), data |-> FlatPayload])
    /\ xOnce = Num(0)
    /\ xTest = Num(0)

-----------------------------------------------------------------------------
(* Relay: claims                                                            *)

\* The number of emitToAll calls of the last callback run on channel ch.
CallsOn(ch) ==
    Cardinality({i \in DOMAIN lastRun.calls : lastRun.calls[i].channel = ch})

\* C7, as claimed: a handler run on a topic of the table makes exactly one
\* emitToAll call on 'ensync_event' and exactly one on the mapped channel; on
\* a topic not in the table exactly one on 'ensync_event' and no other.
C7_OnePassthroughOneMapped ==
    lastRun.source = "handler" =>
        /\ CallsOn("ensync_event") = 1
        /\ lastRun.topic \in DOMAIN socketEventMap =>
              /\ CallsOn(socketEventMap[lastRun.topic]) = 1
              /\ Len(lastRun.calls) = 2
        /\ lastRun.topic \notin DOMAIN socketEventMap => Len(lastRun.calls) = 1

\* C7, amended: every handler run makes exactly one emitToAll call on
\* 'ensync_event', first.  On a topic of the table it then makes exactly one
\* call on the mapped channel, unless the passthrough emit raised: then the
\* exception is caught and no call is made on the mapped channel.  On a topic
\* not in the table it makes no other call.
C7_OnePassthroughThenMappedUnlessRaised ==
    lastRun.source = "handler" =>
        /\ CallsOn("ensync_event") = 1
        /\ lastRun.calls[1].channel = "ensync_event"
        /\ (lastRun.topic \in DOMAIN socketEventMap /\ lastRun.calls[1].outcome # "threw") =>
              /\ CallsOn(socketEventMap[lastRun.topic]) = 1
              /\ Len(lastRun.calls) = 2
        /\ (lastRun.topic \in DOMAIN socketEventMap /\ lastRun.calls[1].outcome = "threw") =>
              /\ Len(lastRun.calls) = 1
              /\ lastRun.caught
        /\ lastRun.topic \notin DOMAIN socketEventMap => Len(lastRun.calls) = 1

\* C7 witness: a message on the soil topic relayed with one emit on
\* 'ensync_event' and one on 'plant_soil'.
C7_Witness ==
    /\ lastRun.source = "handler"
    /\ lastRun.topic = "progo/plant/soil"
    /\ Len(lastRun.calls) = 2
    /\ lastRun.calls[1].channel = "ensync_event"
    /\ lastRun.calls[1].outcome = "emitted"
    /\ lastRun.calls[2].channel = "plant_soil"
    /\ lastRun.calls[2].outcome = "emitted"

\* C8, as claimed: for every event received on a topic of the table, the
\* mapped channel is sent the extracted payload ({moisture: 44} for
\* {payload: {moisture: 44}}) and the passthrough channel a message with the
\* topic name and the raw event.
C8_MappedGetsPayloadPassthroughGetsRaw ==
    (lastRun.source = "handler" /\ lastRun.topic \in DOMAIN socketEventMap) =>
        /\ \E i \in DOMAIN lastRun.calls :
              /\ lastRun.calls[i].channel = socketEventMap[lastRun.topic]
              /\ lastRun.calls[i].payload = extractPayload(lastRun.event)
              /\ lastRun.event = Obj([payload |-> FlatPayload])
                    => lastRun.calls[i].payload = FlatPayload
        /\ \E i \in DOMAIN lastRun.calls :
              /\ lastRun.calls[i].channel = "ensync_event"
              /\ lastRun.calls[i].payload.fields["eventName"] = Str(lastRun.topic)
              /\ lastRun.calls[i].payload.fields["raw"] = lastRun.event

\* C8, amended: for every event received on a topic of the table, emitToAll
\* is called on 'ensync_event' with the topic name, the extracted payload and
\* the raw event, unchanged; and, unless that emit raises, emitToAll is
\* called on the mapped channel with the extracted payload ({moisture: 44}
\* for {payload: {moisture: 44}}), and with nothing else.
C8_PayloadAndRawUnlessPassthroughRaised ==
    (lastRun.source = "handler" /\ lastRun.topic \in DOMAIN socketEventMap) =>
        /\ lastRun.calls[1].channel = "ensync_event"
        /\ lastRun.calls[1].payload.fields["eventName"] = Str(lastRun.topic)
        /\ lastRun.calls[1].payload.fields["raw"] = lastRun.event
        /\ lastRun.calls[1].payload.fields["payload"] = extractPayload(lastRun.event)
        /\ lastRun.calls[1].outcome # "threw" =>
              /\ \E i \in DOMAIN lastRun.calls :
                    lastRun.calls[i].channel = socketEventMap[lastRun.topic]
              /\ \A i \in DOMAIN lastRun.calls :
                    lastRun.calls[i].channel = socketEventMap[lastRun.topic] =>
                        /\ lastRun.calls[i].payload = extractPayload(lastRun.event)
                        /\ lastRun.event = Obj([payload |-> FlatPayload])
                              => lastRun.calls[i].payload = FlatPayload

\* C8 witness: {payload: {moisture: 44}} received on the soil topic with the
\* broadcaster initialized: {moisture: 44} emitted on 'plant_soil', the raw
\* envelope on 'ensync_event'.
C8_Witness ==
    /\ lastRun.source = "handler"
    /\ lastRun.topic = "progo/plant/soil"
    /\ lastRun.event = Obj([payload |-> FlatPayload])
    /\ ioRef = IoServer
    /\ Len(lastRun.calls) = 2
    /\ lastRun.calls[1] = [channel |-> "ensync_event",
                           payload |-> Obj([eventName |-> Str("progo/plant/soil"),
                                            payload |-> FlatPayload,
                                            raw |-> Obj([payload |-> FlatPayload])]),
                           outcome |-> "emitted"]
    /\ lastRun.calls[2] = [channel |-> "plant_soil", payload |-> FlatPayload,
                           outcome |-> "emitted"]

\* The subscriptions whose handler is registered on topic t.
ActiveOn(t) == {i \in DOMAIN subResults : subResults[i].ok /\ subResults[i].topic = t}

\* C11: an exception raised by an emit while the handler processes a message
\* is caught in the handler (its catch block runs exactly when an emit
\* raised); no step unregisters a handler; and the handler that caught an
\* exception can be delivered the next message.
C11_HandlerExceptionCaught ==
    /\ [](lastRun.source = "handler" =>
            (lastRun.caught <=>
                \E k \in DOMAIN lastRun.calls : lastRun.calls[k].outcome = "threw"))
    /\ [][\A i \in DOMAIN subResults : subResults[i].ok => subResults'[i].ok]_vars
    /\ [](raised # 0 => (subResults[raised].ok /\ ENABLED DeliverTo(raised)))

\* C11 witness: the only handler of a topic caught an exception in an earlier
\* run, and has since relayed a message with both emits.
C11_Witness ==
    /\ raised # 0
    /\ lastRun.source = "handler"
    /\ ActiveOn(lastRun.topic) = {raised}
    /\ ~ lastRun.caught
    /\ Len(lastRun.calls) = 2
    /\ \A k \in DOMAIN lastRun.calls : lastRun.calls[k].outcome = "emitted"

\* C12: a failed subscribe does not end the loop over the selected topics:
\* while the loop runs, one subscribe has been tried per topic passed,
\* whatever the outcomes; at the end of startSubscriber one has been tried
\* for every selected topic, in order; and only a failure of createClient
\* takes startSubscriber to the outer catch.
C12_SubscribeFailureContinues ==
    /\ rPc \in {"loop", "subscribing"} =>
          /\ topicIdx \in 1..Len(topics)
          /\ Len(subResults) = topicIdx - 1
    /\ rPc = "active" => Len(subResults) = Len(topics)
    /\ \A i \in DOMAIN subResults : subResults[i].topic = topics[i]
    /\ rPc = "init_failed" => subResults = <<>>

\* C12 witness: with the four topics of the table, the first subscribe failed
\* and the three after it were tried, and succeeded.
C12_Witness ==
    /\ rPc = "active"
    /\ Len(subResults) = 4
    /\ ~ subResults[1].ok
    /\ \A i \in 2..4 : subResults[i].ok

\* v is absent from the environment: unset, or empty.
Absent(v) == v = Unset \/ v = ""

\* C13: when ENSYNC_CLIENT_ID and CLIENT_ACCESS_KEY are both absent, or
\* SECRET_KEY is, startSubscriber returns at its first test and the relay
\* stays uninitialized: createClient is never called, no topic is selected
\* or subscribed, no timer is set, and nothing is ever passed to emitToAll.
C13_MissingCredentialsStaysUninitialized ==
    (\/ (Absent(rEnv.cred.ENSYNC_CLIENT_ID) /\ Absent(rEnv.cred.CLIENT_ACCESS_KEY))
     \/ Absent(rEnv.cred.SECRET_KEY)) =>
        /\ rPc \in {"start", "uninitialized"}
        /\ topics = <<>>
        /\ timers = <<>>
        /\ subResults = <<>>
        /\ lastRun = NoRun
        /\ wire = <<>>

\* C13 witness: SECRET_KEY absent, startSubscriber has returned, and the
\* broadcaster has been initialized since.
C13_Witness ==
    /\ rEnv.cred.SECRET_KEY = Unset
    /\ rPc = "uninitialized"
    /\ sPc = "listening"

\* The topics EVENT_TO_PUBLISH names: the trimmed entries that are not empty.
NamedTopics == {rEnv.EVENT_TO_PUBLISH[i].text : i \in DOMAIN rEnv.EVENT_TO_PUBLISH} \ {""}

\* C14: the topics selected, the topics a subscribe is tried for and the
\* topics a timer is set for are the trimmed non-empty entries of
\* EVENT_TO_PUBLISH when there is one, and the keys of socketEventMap
\* otherwise.
C14_TopicsFromOverrideOrTable ==
    LET expected == IF NamedTopics # {} THEN NamedTopics ELSE DOMAIN socketEventMap
    IN  /\ rPc \notin {"start", "uninitialized"} =>
              {topics[i] : i \in DOMAIN topics} = expected
        /\ {subResults[i].topic : i \in DOMAIN subResults} \subseteq expected
        /\ {timers[i] : i \in DOMAIN timers} \subseteq expected
        /\ rPc = "active" =>
              /\ {subResults[i].topic : i \in DOMAIN subResults} = expected
              /\ {timers[i] : i \in DOMAIN timers} = expected

\* C14 witness: EVENT_TO_PUBLISH = " , progo/plant/soil " has one entry left
\* after trimming and filtering, and the soil topic alone is subscribed.
C14_Witness ==
    /\ rPc = "active"
    /\ rEnv.EVENT_TO_PUBLISH = <<[text |-> "", pad |-> TRUE],
                                 [text |-> "progo/plant/soil", pad |-> TRUE]>>
    /\ subResults = <<[topic |-> "progo/plant/soil", ok |-> TRUE]>>

\* C15, as claimed: no topic has more than one registered handler, and no
\* topic more than one timer, whatever EVENT_TO_PUBLISH holds.
C15_OneSubscriptionPerTopic ==
    /\ \A i, j \in DOMAIN subResults :
          (i # j /\ subResults[i].ok /\ subResults[j].ok)
              => subResults[i].topic # subResults[j].topic
    /\ \A i, j \in DOMAIN timers : i # j => timers[i] # timers[j]

\* C15, the divergence: EVENT_TO_PUBLISH names the soil topic twice, and two
\* handlers are registered on it.
C15_Witness ==
    /\ rPc = "active"
    /\ rEnv.EVENT_TO_PUBLISH = <<[text |-> "progo/plant/soil", pad |-> TRUE],
                                 [text |-> "progo/plant/soil", pad |-> TRUE]>>
    /\ ActiveOn("progo/plant/soil") = {1, 2}

\* C16: a callback that runs while ioRef is null has every emitToAll call
\* return without raising and without reaching io.emit; the transport
\* receives nothing from it, then or after initSocket; and initSocket itself
\* emits nothing.
C16_EmitBeforeInitDropped ==
    /\ [](lastRun.io = NullRef =>
            /\ \A k \in DOMAIN lastRun.calls : lastRun.calls[k].outcome = "dropped"
            /\ ~ lastRun.caught
            /\ wire = <<>>)
    /\ [](ioRef = NullRef => wire = <<>>)
    /\ [][(ioRef = NullRef /\ ioRef' # NullRef) => wire' = <<>>]_vars

\* C16 witness: a message was handled before initSocket, both its emitToAll
\* calls were dropped, and the broadcaster has been initialized since with
\* nothing on the transport.
C16_Witness ==
    /\ lastRun.source = "handler"
    /\ lastRun.io = NullRef
    /\ Len(lastRun.calls) = 2
    /\ ioRef = IoServer
    /\ wire = <<>>

\* C17: from the call of initSocket on, ioRef holds the server, whether the
\* createClient in initSocket resolves or rejects; and a callback that runs
\* with ioRef set has each of its emitToAll calls make one io.emit call, with
\* the same channel and payload, in the same order.
C17_StaysInitializedOneEmitPerCall ==
    /\ [](sPc \in {"creating", "listening", "rejected"} => ioRef = IoServer)
    /\ [][ioRef = IoServer => ioRef' = IoServer]_vars
    /\ [](lastRun.io = IoServer =>
            /\ Len(wire) = Len(lastRun.calls)
            /\ \A k \in DOMAIN lastRun.calls :
                  /\ wire[k].channel = lastRun.calls[k].channel
                  /\ wire[k].payload = lastRun.calls[k].payload)

\* C17 witness: createClient in initSocket rejected, and a timer that fired
\* with ioRef set had its reading emitted on 'plant_soil'.
C17_Witness ==
    /\ sPc = "rejected"
    /\ ioRef = IoServer
    /\ lastRun.source = "timer"
    /\ lastRun.io = IoServer
    /\ Len(wire) = 1
    /\ wire[1].channel = "plant_soil"
    /\ wire[1].payload = lastRun.calls[1].payload

\* C18: no run of the relay's handler calls ack or unsubscribe on its
\* subscription.
C18_HandlerNeverAcks ==
    lastRun.source = "handler" => lastRun.subCalls = <<>>

\* C18 witness: {data: {moisture: 44}} received on the water topic and
\* relayed with both emits, with no call on the subscription.
C18_Witness ==
    /\ lastRun.source = "handler"
    /\ lastRun.topic = "progo/plant/water"
    /\ lastRun.event = Obj([data |-> FlatPayload])
    /\ Len(lastRun.calls) = 2
    /\ lastRun.calls[2].outcome = "emitted"
    /\ lastRun.subCalls = <<>>

\* The last callback run relayed a message to both channels: the passthrough
\* emit, then the mapped emit, neither raising.
RelayedToBoth(run) ==
    /\ run.source = "handler"
    /\ Len(run.calls) = 2
    /\ run.calls[1].channel = "ensync_event"
    /\ run.calls[2].channel = socketEventMap[run.topic]
    /\ \A k \in DOMAIN run.calls : run.calls[k].outcome = "emitted"

\* C24: a handler run on a topic of the table calls emitToAll on
\* 'ensync_event' first and on the mapped channel second; when the first
\* emit raises the run ends in the catch block with no call on the mapped
\* channel, the handler stays registered, and the next message delivered to
\* it can be relayed to both channels.
C24_PassthroughFirstMappedSkippedOnRaise ==
    (lastRun.source = "handler" /\ lastRun.topic \in DOMAIN socketEventMap) =>
        /\ lastRun.calls[1].channel = "ensync_event"
        /\ Len(lastRun.calls) = 2 => lastRun.calls[2].channel = socketEventMap[lastRun.topic]
        /\ lastRun.calls[1].outcome # "threw" => Len(lastRun.calls) = 2
        /\ lastRun.calls[1].outcome = "threw" =>
              /\ Len(lastRun.calls) = 1
              /\ lastRun.caught
              /\ raised \in DOMAIN subResults
              /\ subResults[raised].ok
              /\ subResults[raised].topic = lastRun.topic
              /\ ENABLED (DeliverTo(raised) /\ RelayedToBoth(lastRun'))

\* C24 witness: on the temperature topic the passthrough emit raised, and
\* the run ended with that one call.
C24_Witness ==
    /\ lastRun.source = "handler"
    /\ lastRun.topic = "progo/plant/temperature"
    /\ Len(lastRun.calls) = 1
    /\ lastRun.calls[1].channel = "ensync_event"
    /\ lastRun.calls[1].outcome = "threw"
    /\ lastRun.caught

\* The topics selected that are keys of socketEventMap.
SelectedMapped ==
    (IF NamedTopics # {} THEN NamedTopics ELSE DOMAIN socketEventMap)
        \cap DOMAIN socketEventMap

\* The timer set for topic t can fire, and then calls emitToAll once, on the
\* channel mapped to t.
TimerEmitsFor(t) ==
    /\ \E i \in DOMAIN timers : timers[i] = t
    /\ ENABLED (/\ TimerFire
                /\ lastRun'.topic = t
                /\ Len(lastRun'.calls) = 1
                /\ lastRun'.calls[1].channel = socketEventMap[t])

\* What a run of a timer callback does: on a topic of the table one
\* emitToAll call on the mapped channel, with a reading in the initial
\* ranges and a timestamp; on any other topic no call.
TimerRunAsSpecified ==
    lastRun.source = "timer" =>
        IF lastRun.topic \in DOMAIN socketEventMap
          THEN /\ Len(lastRun.calls) = 1
               /\ lastRun.calls[1].channel = socketEventMap[lastRun.topic]
               /\ DOMAIN lastRun.calls[1].payload.fields
                     = {"moisture", "level", "celsius", "lux", "timestamp"}
               /\ lastRun.calls[1].payload.fields["level"].num \in 35..75
               /\ lastRun.calls[1].payload.fields["moisture"].num \in 30..65
               /\ lastRun.calls[1].payload.fields["celsius"].num \in 2200..2800
               /\ lastRun.calls[1].payload.fields["lux"].num \in 3500..14000
          ELSE lastRun.calls = <<>>

\* C25, as claimed: once startSubscriber has selected its topics and has
\* come to its end, every selected topic of the table has a timer that emits
\* a reading on the mapped channel, whatever became of the bus calls; a
\* timer of a topic not in the table emits nothing; readings are in range.
C25_TimerForEverySelectedTopic ==
    /\ rPc \in {"active", "init_failed"} => \A t \in SelectedMapped : TimerEmitsFor(t)
    /\ TimerRunAsSpecified

\* C25, amended: the timers are set inside the loop that follows
\* createClient, each before the subscribe of its topic.  When createClient
\* fails no timer is ever set.  When it succeeds, every topic whose
\* subscribe has been tried has its timer, whether the subscribe succeeded
\* or failed, and at the end of startSubscriber every selected topic of the
\* table has a timer that emits a reading on the mapped channel; a timer of
\* a topic not in the table emits nothing; readings are in range.
C25_TimerForEveryTopicOnceClientCreated ==
    /\ rPc = "active" => \A t \in SelectedMapped : TimerEmitsFor(t)
    /\ rPc \in {"start", "uninitialized", "creating", "init_failed"} => timers = <<>>
    /\ \A i \in DOMAIN subResults : i \in DOMAIN timers /\ timers[i] = subResults[i].topic
    /\ \A i \in DOMAIN subResults :
          (subResults[i].topic \in DOMAIN socketEventMap) => TimerEmitsFor(subResults[i].topic)
    /\ TimerRunAsSpecified

\* C25 witness: the soil topic's subscribe failed, no handler is registered
\* and no message was ever handled, and the soil timer has had a reading
\* emitted on 'plant_soil'.
C25_Witness ==
    /\ rPc = "active"
    /\ subResults = <<[topic |-> "progo/plant/soil", ok |-> FALSE]>>
    /\ raised = 0
    /\ lastRun.source = "timer"
    /\ lastRun.topic = "progo/plant/soil"
    /\ lastRun.calls[1].channel = "plant_soil"
    /\ lastRun.calls[1].outcome = "emitted"
    /\ lastRun.calls[1].payload.fields["level"] = Num(75)

-----------------------------------------------------------------------------
(* Socket service and dashboard: claims                                     *)

\* C22, as claimed: in the socket service, with no receiver identifier
\* configured the receiver list is empty, and no run of a plant_* handler
\* calls client.publish.
C22_SocketNoReceiversNoPublish ==
    ~ Truthy(svcEnvReceiver) =>
        /\ svcReceiversId = <<>>
        /\ clientRun.publish = NoPublish

\* C22, the divergence: with the receiver identifier unset, a plant_water
\* event has had publish called on the water topic with the receiver list
\* [undefined].
C22_Witness ==
    /\ svcEnvReceiver = Unset
    /\ clientRun.event = "plant_water"
    /\ clientRun.outcome = "pending"
    /\ clientRun.publish.topic = "progo/plant/water"
    /\ clientRun.publish.receivers = <<Unset>>

\* C26, as claimed: metrics is null or has all four of waterLevel,
\* soilMoisture, temperatureC and lightLux defined, and the render of the
\* stat cards never raises.
C26_MetricsNullOrComplete ==
    /\ \/ metrics = Null
       \/ \A f \in MetricFields : Get(metrics, f) # Undefined
    /\ ~ rendered.threw

\* C26, the divergence: after one plant_water event metrics is
\* {waterLevel: 50}, and the render that follows raises on
\* metrics.temperatureC.toFixed.
C26_Witness ==
    /\ metrics = Obj([waterLevel |-> Num(50)])
    /\ rendered.threw

====
